---- MODULE Spec2Model ----
(***************************************************************************)
(* Model of dinero's Dinero value type (src/dinero/_dinero.py).            *)
(*                                                                         *)
(* A Dinero holds a decimal.Decimal amount and a currency record.  Every   *)
(* Decimal operation the class performs is executed under the process-wide *)
(* decimal context, whose precision _normalize overwrites and never        *)
(* restores.  The model therefore carries the context precision as state   *)
(* and computes every Decimal operation digit by digit, as the decimal     *)
(* module does: a Decimal is a sign, a coefficient (sequence of decimal    *)
(* digits, most significant first) and an exponent.                        *)
(***************************************************************************)
EXTENDS Integers, Sequences, FiniteSets, TLC

(***************************************************************************)
(* Unbounded naturals: sequences of decimal digits, no leading zero       *)
(* (zero is <<0>>).                                                        *)
(***************************************************************************)
Max(a, b) == IF a >= b THEN a ELSE b

Min(a, b) == IF a <= b THEN a ELSE b

Zeros(n) == [i \in 1..n |-> 0]

\* index of the first / last non-zero digit of s (0 if all are zero)
FirstNonZero(s) ==
  IF \A i \in 1..Len(s) : s[i] = 0 THEN 0
  ELSE CHOOSE i \in 1..Len(s) : s[i] # 0 /\ \A j \in 1..(i - 1) : s[j] = 0

LastNonZero(s) ==
  IF \A i \in 1..Len(s) : s[i] = 0 THEN 0
  ELSE CHOOSE i \in 1..Len(s) : s[i] # 0 /\ \A j \in (i + 1)..Len(s) : s[j] = 0

StripLeadingZeros(s) ==
  IF FirstNonZero(s) = 0 THEN <<0>> ELSE SubSeq(s, FirstNonZero(s), Len(s))

IsZeroMag(s) == \A i \in 1..Len(s) : s[i] = 0

PadLeft(s, n) == Zeros(n - Len(s)) \o s

\* lexicographic comparison of two digit sequences of the same length
CmpSameLen(a, b) ==
  IF a = b THEN 0
  ELSE LET k == CHOOSE i \in 1..Len(a) : a[i] # b[i] /\ \A j \in 1..(i - 1) : a[j] = b[j]
       IN IF a[k] < b[k] THEN -1 ELSE 1

CmpMag(a, b) ==
  LET n == Max(Len(a), Len(b)) IN CmpSameLen(PadLeft(a, n), PadLeft(b, n))

\* Schoolbook addition of two digit sequences of the same length n; the
\* carry into position i is found by looking ahead: some lower position
\* generates a carry and every position in between propagates it.
\* The result has n + 1 digits, the first one being the carry-out.
CarryInto(a, b, i) ==
  \E j \in (i + 1)..Len(a) :
     /\ a[j] + b[j] >= 10
     /\ \A k \in (i + 1)..(j - 1) : a[k] + b[k] = 9

AddSameLen(a, b) ==
  [i \in 1..(Len(a) + 1) |->
     IF i = 1 THEN (IF CarryInto(a, b, 0) THEN 1 ELSE 0)
     ELSE (a[i - 1] + b[i - 1] + (IF CarryInto(a, b, i - 1) THEN 1 ELSE 0)) % 10]

AddMag(a, b) ==
  LET n == Max(Len(a), Len(b))
  IN StripLeadingZeros(AddSameLen(PadLeft(a, n), PadLeft(b, n)))

\* Schoolbook subtraction, a >= b, same length: borrow look-ahead
BorrowFrom(a, b, i) ==
  \E j \in (i + 1)..Len(a) :
     /\ a[j] < b[j]
     /\ \A k \in (i + 1)..(j - 1) : a[k] = b[k]

SubSameLen(a, b) ==
  [i \in 1..Len(a) |->
     (a[i] - b[i] - (IF BorrowFrom(a, b, i) THEN 1 ELSE 0) + 10) % 10]

SubMag(a, b) ==
  LET n == Max(Len(a), Len(b))
  IN StripLeadingZeros(SubSameLen(PadLeft(a, n), PadLeft(b, n)))

\* a times one digit d: the units and the tens of the digit products
MulDigit(a, d) ==
  AddMag([i \in 1..Len(a) |-> (a[i] * d) % 10],
         [i \in 1..(Len(a) + 1) |-> IF i > Len(a) THEN 0 ELSE (a[i] * d) \div 10])

\* long multiplication: one partial product per digit of b
RECURSIVE MulLong(_, _)
MulLong(a, b) ==
  IF Len(b) = 1 THEN MulDigit(a, b[1])
  ELSE LET n == Len(b)
           h == n \div 2
       IN AddMag(StripLeadingZeros(MulLong(a, SubSeq(b, 1, h)) \o Zeros(n - h)),
                 MulLong(a, SubSeq(b, h + 1, n)))

MulMag(a, b) == IF Len(a) >= Len(b) THEN MulLong(a, b) ELSE MulLong(b, a)

\* the digits of a small natural number
\* one digit of a long division: the largest q with q * dv <= x, for x < 10 * dv
DivDigit(x, dv) ==
  CHOOSE q \in 0..9 :
    /\ CmpMag(MulDigit(dv, q), x) <= 0
    /\ q = 9 \/ CmpMag(MulDigit(dv, q + 1), x) > 0

\* the digit q and the remainder it leaves
DivTaken(x, dv, q) == [q |-> <<q>>, r |-> StripLeadingZeros(SubMag(x, MulDigit(dv, q)))]

DivTake(x, dv) == DivTaken(x, dv, DivDigit(x, dv))

DivJoin(q1, right) == [q |-> q1 \o right.q, r |-> right.r]

\* long division: the digits ds are brought down one by one onto the
\* remainder r (r < dv); gives the quotient digits and the last remainder
RECURSIVE DivBring(_, _, _)
DivRight(left, ds, dv) == DivJoin(left.q, DivBring(left.r, ds, dv))

DivBring(r, ds, dv) ==
  IF Len(ds) = 1 THEN DivTake(StripLeadingZeros(r \o ds), dv)
  ELSE DivRight(DivBring(r, SubSeq(ds, 1, Len(ds) \div 2), dv),
                SubSeq(ds, Len(ds) \div 2 + 1, Len(ds)), dv)

DivStripped(qr) == [q |-> StripLeadingZeros(qr.q), r |-> qr.r]

\* divmod(a, b) of two magnitudes, b non-zero
DivModMag(a, b) == DivStripped(DivBring(<<0>>, a, StripLeadingZeros(b)))

RECURSIVE NatDigits(_)
NatDigits(n) == IF n < 10 THEN <<n>> ELSE Append(NatDigits(n \div 10), n % 10)

\* 10**e as an integer
Pow10(e) == <<1>> \o Zeros(e)

(***************************************************************************)
(* decimal.Decimal: [sign, int, exp] as in the decimal module              *)
(* (_sign, _int, _exp); value = (-1)^sign * int * 10^exp.                  *)
(***************************************************************************)
Dec(s, i, e) == [sign |-> s, int |-> i, exp |-> e]

DecIsZero(d) == IsZeroMag(d.int)

\* Decimal.adjusted(): exponent of the most significant digit
Adjusted(d) == d.exp + Len(d.int) - 1

\* ROUND_HALF_UP, the rounding the context does not use: a tie always goes up
RoundsUpHalfUp(keep, rest) ==
  /\ rest # <<>>
  /\ rest[1] >= 5

\* ROUND_HALF_EVEN (the default context rounding): does dropping `rest`
\* after the kept digits `keep` round the kept coefficient up?
RoundsUpHalfEven(keep, rest) ==
  /\ rest # <<>>
  /\ \/ rest[1] > 5
     \/ /\ rest[1] = 5
        /\ \/ ~IsZeroMag(Tail(rest))
           \/ keep[Len(keep)] % 2 = 1

\* Decimal._fix: round the coefficient to the context precision p
DecFix(d, p) ==
  IF DecIsZero(d) \/ Len(d.int) <= p THEN d
  ELSE LET keep == SubSeq(d.int, 1, p)
           rest == SubSeq(d.int, p + 1, Len(d.int))
           e    == d.exp + Len(rest)
           up   == IF RoundsUpHalfEven(keep, rest) THEN AddMag(keep, <<1>>) ELSE keep
       IN IF Len(up) > p
          THEN Dec(d.sign, SubSeq(up, 1, p), e + 1)
          ELSE Dec(d.sign, up, e)

\* Decimal._rescale(exp, ROUND_HALF_EVEN)
DecRescale(d, e) ==
  IF DecIsZero(d) THEN Dec(d.sign, <<0>>, e)
  ELSE IF d.exp >= e THEN Dec(d.sign, d.int \o Zeros(d.exp - e), e)
  ELSE LET n == Len(d.int) + d.exp - e   \* digits kept
           src  == IF n < 0 THEN <<1>> ELSE d.int
           k    == IF n < 0 THEN 0 ELSE n
           keep == IF k = 0 THEN <<0>> ELSE SubSeq(src, 1, k)
           rest == SubSeq(src, k + 1, Len(src))
       IN Dec(d.sign,
              IF RoundsUpHalfEven(keep, rest) THEN AddMag(keep, <<1>>) ELSE keep,
              e)

\* Decimal.normalize(): round to the context precision, then strip the
\* trailing zeros of the coefficient (a zero becomes 0 with exponent 0)
StripDec(d) ==
  LET k == Max(1, LastNonZero(d.int))
  IN Dec(d.sign, SubSeq(d.int, 1, k), d.exp + Len(d.int) - k)

DecNormalize(d, p) ==
  LET f == DecFix(d, p)
  IN IF DecIsZero(f) THEN Dec(f.sign, <<0>>, 0) ELSE StripDec(f)

\* Decimal.quantize(Decimal("1e-<e>")) under precision p: InvalidOperation
\* when the result would need more than p digits
DecQuantizeFails(d, e, p) ==
  /\ ~DecIsZero(d)
  /\ \/ Adjusted(d) + e + 1 > p
     \/ Len(DecRescale(d, -e).int) > p

DecQuantize(d, e, p) == DecFix(DecRescale(d, -e), p)

\* Decimal.__add__ under precision p: the exact sum at the smaller
\* exponent, rounded to p digits
DecAdd(a, b, p) ==
  LET e  == Min(a.exp, b.exp)
      ai == StripLeadingZeros(a.int \o Zeros(a.exp - e))
      bi == StripLeadingZeros(b.int \o Zeros(b.exp - e))
      c  == CmpMag(ai, bi)
  IN IF DecIsZero(a) /\ DecIsZero(b)
       THEN DecFix(Dec(Min(a.sign, b.sign), <<0>>, e), p)
     ELSE IF a.sign = b.sign
       THEN DecFix(Dec(a.sign, AddMag(ai, bi), e), p)
     ELSE IF c = 0
       THEN DecFix(Dec(0, <<0>>, e), p)
     ELSE IF c > 0
       THEN DecFix(Dec(a.sign, SubMag(ai, bi), e), p)
     ELSE DecFix(Dec(b.sign, SubMag(bi, ai), e), p)

DecNeg(d) == Dec(1 - d.sign, d.int, d.exp)

\* Decimal.__sub__: self + (-other)
DecSub(a, b, p) == DecAdd(a, DecNeg(b), p)

\* Decimal.__mul__ under precision p
DecMul(a, b, p) ==
  LET s == IF a.sign = b.sign THEN 0 ELSE 1
  IN IF DecIsZero(a) \/ DecIsZero(b)
       THEN DecFix(Dec(s, <<0>>, a.exp + b.exp), p)
     ELSE DecFix(Dec(s, MulMag(a.int, b.int), a.exp + b.exp), p)

\* Decimal.__truediv__ by Decimal(10**e) under precision p: the quotient is
\* exact; its exponent moves towards the ideal exponent (the dividend's) by
\* dropping at most e trailing zeros; then it is rounded to p digits
DropZeros(d, k) ==
  LET m == Max(Max(1, LastNonZero(d.int)), Len(d.int) - k)
  IN Dec(d.sign, SubSeq(d.int, 1, m), d.exp + Len(d.int) - m)

DecDivPow10(a, e, p) ==
  IF DecIsZero(a) THEN DecFix(Dec(a.sign, <<0>>, a.exp), p)
  ELSE DecFix(DropZeros(Dec(a.sign, a.int, a.exp - e), e), p)

\* Decimal.__truediv__ under precision p.  A zero divisor raises
\* DivisionByZero, or InvalidOperation (DivisionUndefined) for 0 / 0
DecDivError(a, b) ==
  IF ~DecIsZero(b) THEN "ok"
  ELSE IF DecIsZero(a) THEN "decimal.InvalidOperation"
  ELSE "decimal.DivisionByZero"

\* shift = len(other._int) - len(self._int) + context.prec + 1
DecDivShift(a, b, p) == Len(b.int) - Len(a.int) + p + 1

\* divmod(op1.int * 10**shift, op2.int), or divmod(op1.int, op2.int * 10**-shift)
DecDivMod(a, b, shift) ==
  IF shift >= 0 THEN DivModMag(a.int \o Zeros(shift), b.int)
  ELSE DivModMag(a.int, b.int \o Zeros(-shift))

\* an inexact quotient is marked by a last digit that is neither 0 nor 5; an
\* exact one moves towards the ideal exponent by dropping trailing zeros
DecDivResult(s, e, shift, qr) ==
  IF IsZeroMag(qr.r) THEN DropZeros(Dec(s, qr.q, e - shift), Max(0, shift))
  ELSE IF qr.q[Len(qr.q)] % 5 = 0 THEN Dec(s, AddMag(qr.q, <<1>>), e - shift)
  ELSE Dec(s, qr.q, e - shift)

DecDivShifted(s, a, b, shift) ==
  DecDivResult(s, a.exp - b.exp, shift, DecDivMod(a, b, shift))

DecDiv(a, b, p) ==
  IF DecIsZero(a)
    THEN DecFix(Dec(IF a.sign = b.sign THEN 0 ELSE 1, <<0>>, a.exp - b.exp), p)
  ELSE DecFix(DecDivShifted(IF a.sign = b.sign THEN 0 ELSE 1, a, b,
                            DecDivShift(a, b, p)), p)

\* number of digits of the integer part of |d| (0 when |d| < 1)
IntPartDigits(d) == IF DecIsZero(d) THEN 0 ELSE Max(0, Len(d.int) + d.exp)

\* does d have a non-zero digit after the decimal point?
HasFraction(d) ==
  /\ d.exp < 0
  /\ \E i \in 1..Len(d.int) : i > Len(d.int) + d.exp /\ d.int[i] # 0

\* Decimal.__mod__(1) under precision p raises DivisionImpossible when the
\* integer quotient does not fit in p digits
DecModOneFails(d, p) == IntPartDigits(d) > p

\* three-way comparison of the values (Decimal._cmp; context-free, exact)
DecCmp(a, b) ==
  LET e  == Min(a.exp, b.exp)
      ai == StripLeadingZeros(a.int \o Zeros(a.exp - e))
      bi == StripLeadingZeros(b.int \o Zeros(b.exp - e))
      az == DecIsZero(a)
      bz == DecIsZero(b)
  IN IF az /\ bz THEN 0
     ELSE IF az THEN (IF b.sign = 0 THEN -1 ELSE 1)
     ELSE IF bz THEN (IF a.sign = 0 THEN 1 ELSE -1)
     ELSE IF a.sign # b.sign THEN (IF a.sign = 0 THEN 1 ELSE -1)
     ELSE IF a.sign = 0 THEN CmpMag(ai, bi)
     ELSE CmpMag(bi, ai)

\* Python int: [sign, int]; int(Decimal) truncates towards zero
PyInt(s, i) == [sign |-> IF IsZeroMag(i) THEN 0 ELSE s, int |-> StripLeadingZeros(i)]

DecToInt(d) ==
  IF d.exp >= 0 THEN PyInt(d.sign, d.int \o Zeros(d.exp))
  ELSE IF Len(d.int) + d.exp <= 0 THEN PyInt(0, <<0>>)
  ELSE PyInt(d.sign, SubSeq(d.int, 1, Len(d.int) + d.exp))

(***************************************************************************)
(* Text: sequences of one-character strings.                               *)
(***************************************************************************)
DigitChars == <<"0", "1", "2", "3", "4", "5", "6", "7", "8", "9">>

DigitChar(n) == DigitChars[n + 1]

IsDigitChar(c) == \E n \in 0..9 : DigitChars[n + 1] = c

DigitVal(c) == CHOOSE n \in 0..9 : DigitChars[n + 1] = c

DigitText(s) == [i \in 1..Len(s) |-> DigitChar(s[i])]

TextDigits(t) == [i \in 1..Len(t) |-> DigitVal(t[i])]

RepeatChar(c, n) == [i \in 1..n |-> c]

\* Decimal.__str__
DecStr(d) ==
  LET n          == Len(d.int)
      leftdigits == d.exp + n
      dotplace   == IF d.exp <= 0 /\ leftdigits > -6 THEN leftdigits ELSE 1
      txt        == DigitText(d.int)
      intpart    == IF dotplace <= 0 THEN <<"0">>
                    ELSE IF dotplace >= n THEN txt \o RepeatChar("0", dotplace - n)
                    ELSE SubSeq(txt, 1, dotplace)
      fracpart   == IF dotplace <= 0 THEN <<".">> \o RepeatChar("0", -dotplace) \o txt
                    ELSE IF dotplace >= n THEN <<>>
                    ELSE <<".">> \o SubSeq(txt, dotplace + 1, n)
      x          == leftdigits - dotplace
      exppart    == IF x = 0 THEN <<>>
                    ELSE <<"E", IF x < 0 THEN "-" ELSE "+">>
                         \o DigitText(NatDigits(IF x < 0 THEN -x ELSE x))
  IN (IF d.sign = 1 THEN <<"-">> ELSE <<>>) \o intpart \o fracpart \o exppart

\* position of the first occurrence of a character of cs in t (0 if none)
FirstOf(t, cs) ==
  IF \E i \in 1..Len(t) : t[i] \in cs
  THEN CHOOSE i \in 1..Len(t) : t[i] \in cs /\ \A j \in 1..(i - 1) : t[j] \notin cs
  ELSE 0

RECURSIVE SmallNat(_)
SmallNat(t) == IF t = <<>> THEN 0 ELSE 10 * SmallNat(SubSeq(t, 1, Len(t) - 1)) + DigitVal(t[Len(t)])

\* is t the text of a number: [-]digits[.digits][(e|E)[+|-]digits]
IsNumberText(t) ==
  LET body  == IF t # <<>> /\ t[1] = "-" THEN Tail(t) ELSE t
      epos  == FirstOf(body, {"e", "E"})
      mant  == IF epos = 0 THEN body ELSE SubSeq(body, 1, epos - 1)
      etxt  == IF epos = 0 THEN <<>> ELSE SubSeq(body, epos + 1, Len(body))
      edig  == IF etxt # <<>> /\ etxt[1] \in {"+", "-"} THEN Tail(etxt) ELSE etxt
      dpos  == FirstOf(mant, {"."})
      ipart == IF dpos = 0 THEN mant ELSE SubSeq(mant, 1, dpos - 1)
      fpart == IF dpos = 0 THEN <<>> ELSE SubSeq(mant, dpos + 1, Len(mant))
  IN /\ ipart \o fpart # <<>>
     /\ \A i \in 1..Len(ipart) : IsDigitChar(ipart[i])
     /\ \A i \in 1..Len(fpart) : IsDigitChar(fpart[i])
     /\ epos # 0 => (edig # <<>> /\ \A i \in 1..Len(edig) : IsDigitChar(edig[i]))

\* Decimal(text): exact, whatever the context precision
DecFromText(t) ==
  LET neg   == t # <<>> /\ t[1] = "-"
      body  == IF neg THEN Tail(t) ELSE t
      epos  == FirstOf(body, {"e", "E"})
      mant  == IF epos = 0 THEN body ELSE SubSeq(body, 1, epos - 1)
      etxt  == IF epos = 0 THEN <<>> ELSE SubSeq(body, epos + 1, Len(body))
      eneg  == etxt # <<>> /\ etxt[1] = "-"
      edig  == IF etxt # <<>> /\ etxt[1] \in {"+", "-"} THEN Tail(etxt) ELSE etxt
      ex    == IF eneg THEN -SmallNat(edig) ELSE SmallNat(edig)
      dpos  == FirstOf(mant, {"."})
      ipart == IF dpos = 0 THEN mant ELSE SubSeq(mant, 1, dpos - 1)
      fpart == IF dpos = 0 THEN <<>> ELSE SubSeq(mant, dpos + 1, Len(mant))
  IN Dec(IF neg THEN 1 ELSE 0,
         StripLeadingZeros(TextDigits(ipart \o fpart)),
         ex - Len(fpart))

(***************************************************************************)
(* Values handed to Dinero: a Python number or string is represented by    *)
(* its type and the text str() returns for it; a Decimal by its triple.    *)
(***************************************************************************)
PyNum(ty, t) == [type |-> ty, text |-> t, dec |-> Dec(0, <<0>>, 0)]

PyDecimal(d) == [type |-> "Decimal", text |-> <<>>, dec |-> d]

\* `amount if isinstance(amount, Decimal) else Decimal(str(amount))`
AsDecimal(x) == IF x.type = "Decimal" THEN x.dec ELSE DecFromText(x.text)

\* validate.dinero_amount: an int, a float, a Decimal or a numeric string
ValidAmount(x) ==
  \/ x.type \in {"int", "float", "Decimal"}
  \/ x.type = "str" /\ IsNumberText(x.text)

\* validate.addition_and_subtraction_amount: the same, or a Dinero
ValidAdditionOperand(x) == x.type = "Dinero" \/ ValidAmount(x)

\* validate.multiplication_and_division_amount
ValidMultiplicationOperand(x) == ValidAmount(x)

\* Currency records
USD == [code |-> "USD", base |-> 10, exponent |-> 2, symbol |-> "$"]

JPY == [code |-> "JPY", base |-> 10, exponent |-> 0, symbol |-> "Y"]

\* decimal.getcontext().prec of a fresh interpreter
DefaultPrec == 28

(***************************************************************************)
(* Outcome of a call: what it returned or raised, and the context          *)
(* precision it leaves behind.                                             *)
(***************************************************************************)
None == [type |-> "None"]

Ok(v, p) == [kind |-> "ok", val |-> v, prec |-> p]

Raise(k, p) == [kind |-> k, val |-> None, prec |-> p]

\* a constructor without the guard on _internal
DineroInitUnguarded(amount, currency, internal, p) ==
  IF ~ValidAmount(amount) THEN Raise("InvalidOperationError", p)
  ELSE Ok([type |-> "Dinero", amount |-> AsDecimal(amount), currency |-> currency], p)

\* Dinero.__init__
DineroInit(amount, currency, internal, p) ==
  IF ~internal THEN Raise("ValueError", p)
  ELSE IF ~ValidAmount(amount) THEN Raise("InvalidOperationError", p)
  ELSE Ok([type |-> "Dinero", amount |-> AsDecimal(amount), currency |-> currency], p)

\* Dinero.from_major
from_major(amount, currency, p) == DineroInit(amount, currency, TRUE, p)

\* `amount / Decimal(10**exponent)` of from_minor and from_fractional_minor
MajorAmount(a, currency, p) == DecDivPow10(a, currency.exponent, p)

\* Dinero.from_minor once the amount is a Decimal `a`: the whole-number
\* check, the division and the construction
FromMinorDecimal(a, currency, p) ==
  IF DecModOneFails(a, p) THEN Raise("decimal.InvalidOperation", p)
  ELSE IF HasFraction(a) THEN Raise("ValueError", p)
  ELSE DineroInit(PyDecimal(MajorAmount(a, currency, p)), currency, TRUE, p)

\* Dinero.from_minor
from_minor(amount, currency, p) ==
  IF ~ValidAmount(amount) THEN Raise("InvalidOperationError", p)
  ELSE FromMinorDecimal(AsDecimal(amount), currency, p)

\* from_fractional_minor converting before it validates: Decimal(str(amount))
\* of a value that is no number raises decimal.InvalidOperation
from_fractional_minor_unvalidated(amount, currency, p) ==
  IF ~ValidAmount(amount) THEN Raise("decimal.InvalidOperation", p)
  ELSE DineroInit(PyDecimal(MajorAmount(AsDecimal(amount), currency, p)), currency, TRUE, p)

\* Dinero.from_fractional_minor
from_fractional_minor(amount, currency, p) ==
  IF ~ValidAmount(amount) THEN Raise("InvalidOperationError", p)
  ELSE DineroInit(PyDecimal(MajorAmount(AsDecimal(amount), currency, p)), currency, TRUE, p)

\* the precision _normalize writes into the context:
\* max(self.precision, len(str(self.amount)) + self.exponent)
WorkingPrecision(self) ==
  Max(self.currency.base, Len(DecStr(self.amount)) + self.currency.exponent)

\* Decimal.quantize(Decimal(f"1e-{self.exponent}")) in _normalize
Quantize(a, e, p) ==
  IF DecQuantizeFails(a, e, p) THEN Raise("decimal.InvalidOperation", p)
  ELSE Ok(DecQuantize(a, e, p), p)

\* Dinero._normalize after the precision p1 was written into the context
NormalizeUnder(self, quantize, p1) ==
  IF quantize
    THEN Quantize(DecNormalize(self.amount, p1), self.currency.exponent, p1)
    ELSE Ok(DecNormalize(self.amount, p1), p1)

\* Dinero._normalize; p is the precision found, unused because overwritten
Normalize(self, quantize, p) == NormalizeUnder(self, quantize, WorkingPrecision(self))

\* Dinero.to_minor_units given the outcome q of _normalize(quantize=True)
MinorUnitsOf(self, q) ==
  IF q.kind # "ok" THEN q
  ELSE Ok(DecToInt(DecMul(q.val, Dec(0, Pow10(self.currency.exponent), 0), q.prec)),
          q.prec)

\* Dinero.to_minor_units
to_minor_units(self, p) == MinorUnitsOf(self, Normalize(self, TRUE, p))

\* Dinero.raw_amount
raw_amount(self, p) == Normalize(self, TRUE, p)

\* Dinero._get_instance: the currency check on the resolved operand
CheckCurrency(self, obj, p) ==
  IF obj.kind # "ok" THEN obj
  ELSE IF obj.val.currency.code # self.currency.code
    THEN Raise("DifferentCurrencyError", p)
  ELSE obj

\* Dinero._get_instance
GetInstance(self, amount, p) ==
  CheckCurrency(self,
                IF amount.type = "Dinero" THEN Ok(amount, p)
                ELSE from_major(amount, self.currency, p),
                p)

\* the Decimal operators of __add__, __sub__, __mul__ and __truediv__
DecOp(op, a, b, p) ==
  CASE op = "add"      -> DecAdd(a, b, p)
    [] op = "subtract" -> DecSub(a, b, p)
    [] op = "multiply" -> DecMul(a, b, p)
    [] op = "divide"   -> DecDiv(a, b, p)

\* the exception the Decimal operator raises, or "ok"
DecOpError(op, a, b) == IF op = "divide" THEN DecDivError(a, b) ELSE "ok"

OperandValid(op, x) ==
  IF op \in {"multiply", "divide"} THEN ValidMultiplicationOperand(x)
  ELSE ValidAdditionOperand(x)

\* Dinero.__add__, __sub__, __mul__, __truediv__:
\*   total = self._normalize() <op> other._normalize()
\*   return Dinero.from_major(total, self.currency)
\* n1 and n2 are the outcomes of the two _normalize calls; the operation runs
\* under the precision the right operand's _normalize left behind
ArithTotal(op, self, n1, n2) ==
  IF DecOpError(op, n1.val, n2.val) # "ok"
    THEN Raise(DecOpError(op, n1.val, n2.val), n2.prec)
  ELSE from_major(PyDecimal(DecOp(op, n1.val, n2.val, n2.prec)), self.currency, n2.prec)

\* the left operand is normalized first, then the right one
ArithNormalized(op, self, other, n1) ==
  ArithTotal(op, self, n1, Normalize(other, FALSE, n1.prec))

\* g is the outcome of _get_instance
ArithResolved(op, self, g, p) ==
  IF g.kind # "ok" THEN g
  ELSE ArithNormalized(op, self, g.val, Normalize(self, FALSE, p))

Arith(op, self, other, p) ==
  IF ~OperandValid(op, other) THEN Raise("InvalidOperationError", p)
  ELSE ArithResolved(op, self, GetInstance(self, other, p), p)

add(self, other, p) == Arith("add", self, other, p)

\* a __sub__ that adds
subtract_adding(self, other, p) == Arith("add", self, other, p)

subtract(self, other, p) == Arith("subtract", self, other, p)

multiply(self, other, p) == Arith("multiply", self, other, p)

divide(self, other, p) == Arith("divide", self, other, p)

\* a __radd__ that adds, as __add__ does
radd_adding(self, obj, p) == add(self, obj, p)

\* Dinero.__radd__: `return self`, whatever the left operand is
radd(self, obj, p) == Ok(self, p)

\* one step of the built-in sum: acc + x, where acc is the outcome so far
SumStep(acc, x) == IF acc.kind # "ok" THEN acc ELSE add(acc.val, x, acc.prec)

\* sum([self, other, zero]): 0 + self calls self.__radd__(0); then
\* + other and + zero call __add__
sum(self, other, zero, p) == SumStep(SumStep(radd(self, zero, p), other), zero)

\* sum([self, self], start): start + self calls self.__radd__(start); then
\* + self calls __add__
sum_from(self, start, p) == SumStep(radd(self, start, p), self)

CmpResult(op, c) ==
  CASE op = "equals_to"             -> c = 0
    [] op = "less_than"             -> c < 0
    [] op = "less_than_or_equal"    -> c <= 0
    [] op = "greater_than"          -> c > 0
    [] op = "greater_than_or_equal" -> c >= 0

\* `return num_1 <op> num_2` on the outcomes of the two _normalize calls, of
\* which `first` was made first
CompareBoth(op, n1, n2, first) ==
  IF first = 1 /\ n1.kind # "ok" THEN n1
  ELSE IF n2.kind # "ok" THEN n2
  ELSE IF n1.kind # "ok" THEN n1
  ELSE Ok(CmpResult(op, DecCmp(n1.val, n2.val)), IF first = 1 THEN n2.prec ELSE n1.prec)

\* Dinero.__eq__ after _get_instance(amount)._normalize(quantize): n2
EqualsOther(self, n2, quantize) ==
  IF n2.kind # "ok" THEN n2
  ELSE CompareBoth("equals_to", Normalize(self, quantize, n2.prec), n2, 2)

\* Dinero.__eq__ after _get_instance(amount): g
EqualsResolved(self, g, quantize, p) ==
  IF g.kind # "ok" THEN g
  ELSE EqualsOther(self, Normalize(g.val, quantize, p), quantize)

\* a comparison of the stored amounts as they are, without quantization
EqualsStored(self, other, p) ==
  IF other.type # "Dinero" THEN Raise("InvalidOperationError", p)
  ELSE EqualsResolved(self, GetInstance(self, other, p), FALSE, p)

\* Dinero.__eq__: the other operand is resolved and quantized first
Equals(self, other, p) ==
  IF other.type # "Dinero" THEN Raise("InvalidOperationError", p)
  ELSE EqualsResolved(self, GetInstance(self, other, p), TRUE, p)

\* Dinero.__lt__ .. __ge__ after self._normalize(quantize=True), n1, and
\* _get_instance(amount), g
OrderingResolved(op, n1, g) ==
  IF g.kind # "ok" THEN g
  ELSE CompareBoth(op, n1, Normalize(g.val, TRUE, g.prec), 1)

\* Dinero.__lt__ .. __ge__ after self._normalize(quantize=True): n1
OrderingSelf(op, self, other, n1) ==
  IF n1.kind # "ok" THEN n1
  ELSE OrderingResolved(op, n1, GetInstance(self, other, n1.prec))

\* an ordering comparison without the isinstance check: _get_instance
\* promotes a scalar to a Dinero
OrderingPromoting(op, self, other, p) ==
  OrderingSelf(op, self, other, Normalize(self, TRUE, p))

\* Dinero.__lt__, __le__, __gt__, __ge__: self is quantized before the other
\* operand is resolved
Ordering(op, self, other, p) ==
  IF other.type # "Dinero" THEN Raise("InvalidOperationError", p)
  ELSE OrderingSelf(op, self, other, Normalize(self, TRUE, p))

Compare(op, self, other, p) ==
  IF op = "equals_to" THEN Equals(self, other, p) ELSE Ordering(op, self, other, p)

(***************************************************************************)
(* Formatting and export                                                   *)
(***************************************************************************)
\* the "," option of the format specification: groups of three digits
RECURSIVE GroupThousands(_)
GroupThousands(t) ==
  IF Len(t) <= 3 THEN t
  ELSE GroupThousands(SubSeq(t, 1, Len(t) - 3)) \o <<",">> \o SubSeq(t, Len(t) - 2, Len(t))

\* the digits without the "," option
FormatDigitsUngrouped(sign, digs, e) ==
  (IF sign = 1 THEN <<"-">> ELSE <<>>)
  \o SubSeq(digs, 1, Len(digs) - e)
  \o (IF e > 0 THEN <<".">> \o SubSeq(digs, Len(digs) - e + 1, Len(digs)) ELSE <<>>)

\* sign, grouped integer digits and e fractional digits
FormatDigits(sign, digs, e) ==
  (IF sign = 1 THEN <<"-">> ELSE <<>>)
  \o GroupThousands(SubSeq(digs, 1, Len(digs) - e))
  \o (IF e > 0 THEN <<".">> \o SubSeq(digs, Len(digs) - e + 1, Len(digs)) ELSE <<>>)

\* the text of a Decimal r that has e fractional digits
FormatRescaled(r, e) ==
  FormatDigits(r.sign, DigitText(PadLeft(r.int, Max(Len(r.int), e + 1))), e)

\* format(d, f",.{e}f") of a Decimal
DecFormat(a, e) == FormatRescaled(DecRescale(a, -e), e)

\* Dinero._formatted_amount given the outcome q of _normalize(quantize=True)
FormattedOf(self, q) ==
  IF q.kind # "ok" THEN q ELSE Ok(DecFormat(q.val, self.currency.exponent), q.prec)

\* Dinero._formatted_amount
FormattedAmount(self, p) == FormattedOf(self, Normalize(self, TRUE, p))

\* Dinero.format given the outcome f of _formatted_amount
FormatOf(self, symbol, currency, f) ==
  IF f.kind # "ok" THEN f
  ELSE Ok((IF symbol THEN <<self.currency.symbol>> ELSE <<>>)
          \o f.val
          \o (IF currency THEN <<" ", self.currency.code>> ELSE <<>>),
          f.prec)

\* Dinero.format
format(self, symbol, currency, p) == FormatOf(self, symbol, currency, FormattedAmount(self, p))

\* Dinero.symbol: self.currency.get("symbol", "$")
Symbol(self) ==
  IF "symbol" \in DOMAIN self.currency THEN self.currency.symbol ELSE "$"

\* {**self.currency, "symbol": self.symbol}
ExportCurrency(self) ==
  [k \in DOMAIN self.currency \cup {"symbol"} |->
     IF k = "symbol" THEN Symbol(self) ELSE self.currency[k]]

\* Dinero.to_dict with amount_with_format, given the outcome f of
\* _formatted_amount
DictFormatted(self, f) ==
  IF f.kind # "ok" THEN f
  ELSE Ok([amount |-> f.val, currency |-> ExportCurrency(self)], f.prec)

\* Dinero.to_dict given the outcome q of _normalize(quantize=True)
DictOf(self, amount_with_format, q) ==
  IF q.kind # "ok" THEN q
  ELSE IF amount_with_format THEN DictFormatted(self, FormattedAmount(self, q.prec))
  ELSE Ok([amount |-> DecStr(q.val), currency |-> ExportCurrency(self)], q.prec)

\* Dinero.to_dict
to_dict(self, amount_with_format, p) ==
  DictOf(self, amount_with_format, Normalize(self, TRUE, p))

\* Dinero.to_db_dict given the outcome m of to_minor_units
DbDictOf(self, m) ==
  IF m.kind # "ok" THEN m
  ELSE Ok([amount |-> m.val, currency |-> ExportCurrency(self)], m.prec)

\* the integer part of the quantized amount, in major units
MajorUnitsOf(q) == IF q.kind # "ok" THEN q ELSE Ok(DecToInt(q.val), q.prec)

\* an export whose amount is not scaled to minor units
to_db_dict_major_units(self, p) == DbDictOf(self, MajorUnitsOf(Normalize(self, TRUE, p)))

\* Dinero.to_db_dict
to_db_dict(self, p) == DbDictOf(self, to_minor_units(self, p))

(***************************************************************************)
(* The state machine: a client holds one Dinero, `d`, and calls the public *)
(* operations on it, one call at a time; the operands it passes are drawn  *)
(* from Inputs, Scalars and Operands.  `prec` is the precision of the      *)
(* process-wide decimal context.  `last` is the call that has just         *)
(* returned or raised, with its receiver, argument and outcome, until the  *)
(* client takes the outcome and goes on (Return).                          *)
(***************************************************************************)
\* how many arithmetic results may be chained (d = d.add(x).multiply(y)...)
MaxChain == 1

Currencies == {USD, JPY}

Int1050 == PyNum("int", <<"1","0","5","0">>)

Str10505 == PyNum("str", <<"1","0",".","5","0","5">>)

Float10505 == PyNum("float", <<"1","0","5","0",".","5">>)

IntLong == PyNum("int", <<"1","2","3","4","5","6","7","8","9","0","1">>)

Float1e16 == PyNum("float", <<"1","e","+","1","6">>)

IntNeg == PyNum("int", <<"-","2","5">>)

Int0 == PyNum("int", <<"0">>)

Float0 == PyNum("float", <<"0",".","0">>)

Int3 == PyNum("int", <<"3">>)

\* values that are no amounts: the list [] and the string "abc"
EmptyList == PyNum("list", <<"[", "]">>)

StrAbc == PyNum("str", <<"a", "b", "c">>)

\* the amounts handed to the factories
Inputs ==
  {Int1050, Str10505, Float10505, IntLong, Float1e16, IntNeg, Int0, EmptyList, StrAbc}

\* the plain values handed to add, subtract and multiply
Scalars == {Str10505, IntNeg, EmptyList}

\* the values handed to divide
Divisors == {Int3, IntNeg, Int0, Float0, EmptyList}

\* the Dinero objects handed to add, subtract and the comparisons
Operands ==
  { from_major(i, c, DefaultPrec).val : i \in {Str10505, IntLong, Float1e16}, c \in Currencies }

CompareOps ==
  {"equals_to", "less_than", "less_than_or_equal", "greater_than", "greater_than_or_equal"}

VARIABLES prec, d, chain, last, ctx, threads

vars == <<prec, d, chain, last, ctx, threads>>

\* the client of the state machine below is the main thread; the contexts
\* and the states of the worker threads are those of ThreadsSpec
workers == <<ctx, threads>>

client == <<prec, d, chain, last>>

ArithOps == {"add", "subtract", "multiply", "divide"}

\* the operations that take one operand, a Dinero or a plain value
OperandOps == ArithOps \cup CompareOps \cup {"sum"}

\* the functions of the financial toolkit
ToolOps ==
  {"calculate_vat", "calculate_percentage", "calculate_simple_interest",
   "calculate_compound_interest", "calculate_markup"}

\* an object after _normalize, had line 271 stored the normalized amount
\* back into the object
NormalizedInPlace(obj) ==
  IF obj.type = "Dinero" THEN [obj EXCEPT !.amount = StripDec(obj.amount)] ELSE obj

\* an object after a public call on it or with it: amount and currency are
\* assigned in __init__ alone (lines 68-69); _normalize binds what it
\* computes to locals, and no public method assigns an attribute
AfterCall(obj) == obj

\* which object a call returns: the factories and the arithmetic operators
\* end in cls(...) or type(self).from_major(...), a new object
Returned(op, res) ==
  IF res.kind # "ok" THEN "nothing"
  ELSE IF op \in {"Dinero", "from_major", "from_minor", "from_fractional_minor", "sum",
                   "sum_from"}
                \cup ArithOps \cup ToolOps
    THEN "new object"
  ELSE "value"

\* a call, its outcome, and the receiver and the operand as the call left them
Call(op, self, arg, res) ==
  [op |-> op, self |-> self, arg |-> arg, kind |-> res.kind, val |-> res.val,
   returned |-> Returned(op, res),
   selfAfter |-> AfterCall(self),
   argAfter |-> IF op \in OperandOps THEN AfterCall(arg) ELSE arg]

NoCall ==
  [op |-> "none", self |-> None, arg |-> None, kind |-> "ok", val |-> None,
   returned |-> "nothing", selfAfter |-> None, argAfter |-> None]

\* how many operations each worker thread runs
MaxThreadOps == 1

Threads == {1, 2}

\* a worker thread that has run `count` operations and is between two calls
Idle(count) ==
  [pc |-> "idle", op |-> "none", self |-> None, arg |-> None, n1 |-> None,
   n2 |-> None, res |-> None, count |-> count, under |-> {}]

Init ==
  /\ prec = DefaultPrec
  /\ d = None
  /\ chain = 0
  /\ last = NoCall
  /\ ctx = [t \in Threads |-> [prec |-> DefaultPrec, writer |-> t]]
  /\ threads = [t \in Threads |-> Idle(0)]

\* a factory call; the client keeps the object it returns
Construct(op, res, i, c) ==
  /\ last.op = "none"
  /\ prec' = res.prec
  /\ d' = IF res.kind = "ok" THEN res.val ELSE d
  /\ chain' = IF res.kind = "ok" THEN 0 ELSE chain
  /\ last' = Call(op, None, <<i, c>>, res)
  /\ UNCHANGED workers

FromMajor(i, c) == Construct("from_major", from_major(i, c, prec), i, c)

FromMinor(i, c) == Construct("from_minor", from_minor(i, c, prec), i, c)

FromFractionalMinor(i, c) ==
  Construct("from_fractional_minor", from_fractional_minor(i, c, prec), i, c)

\* Dinero(amount, currency): the constructor called by a client
DirectConstruct(i, c) == Construct("Dinero", DineroInit(i, c, FALSE, prec), i, c)

\* a call that returns no Dinero: only the context precision changes
Query(op, arg, res) ==
  /\ last.op = "none"
  /\ d # None
  /\ prec' = res.prec
  /\ last' = Call(op, d, arg, res)
  /\ UNCHANGED <<d, chain>>
  /\ UNCHANGED workers

ToMinorUnits == Query("to_minor_units", None, to_minor_units(d, prec))

RawAmount == Query("raw_amount", None, raw_amount(d, prec))

Format(symbol, currency) ==
  Query("format", <<symbol, currency>>, format(d, symbol, currency, prec))

ToDict(fmt) == Query("to_dict", fmt, to_dict(d, fmt, prec))

ToDbDict == Query("to_db_dict", None, to_db_dict(d, prec))

Comparison(op, other) == Query(op, other, Compare(op, d, other, prec))

\* sum([d, other, 0])
Sum(other) == Query("sum", other, sum(d, other, Int0, prec))

\* d = d.add(other) and the like; the client keeps the result
Arithmetic(op, other, res) ==
  /\ last.op = "none"
  /\ d # None
  /\ chain < MaxChain
  /\ prec' = res.prec
  /\ d' = IF res.kind = "ok" THEN res.val ELSE d
  /\ chain' = IF res.kind = "ok" THEN chain + 1 ELSE chain
  /\ last' = Call(op, d, other, res)
  /\ UNCHANGED workers

Add(other) == Arithmetic("add", other, add(d, other, prec))

Subtract(other) == Arithmetic("subtract", other, subtract(d, other, prec))

Multiply(k) == Arithmetic("multiply", k, multiply(d, k, prec))

Divide(k) == Arithmetic("divide", k, divide(d, k, prec))

\* the left operands of k + d and the start values of sum: -25 and []
Starts == {IntNeg, EmptyList}

\* k + d
Radd(k) == Query("radd", k, radd(d, k, prec))

\* sum([d, d], start)
SumFrom(start) == Query("sum_from", start, sum_from(d, start, prec))

\* the client has taken the outcome of the call
Return ==
  /\ last.op # "none"
  /\ last' = NoCall
  /\ UNCHANGED <<prec, d, chain>>
  /\ UNCHANGED workers

Next ==
  \/ \E i \in Inputs, c \in Currencies : FromMajor(i, c)
  \/ \E i \in Inputs, c \in Currencies : FromMinor(i, c)
  \/ \E i \in Inputs, c \in Currencies : FromFractionalMinor(i, c)
  \/ \E i \in Inputs, c \in Currencies : DirectConstruct(i, c)
  \/ ToMinorUnits
  \/ RawAmount
  \/ \E symbol \in BOOLEAN, currency \in BOOLEAN : Format(symbol, currency)
  \/ \E fmt \in BOOLEAN : ToDict(fmt)
  \/ ToDbDict
  \/ \E op \in CompareOps, other \in Operands \cup Scalars : Comparison(op, other)
  \/ \E other \in Operands \cup Scalars : Add(other)
  \/ \E other \in Operands \cup Scalars : Subtract(other)
  \/ \E k \in Scalars : Multiply(k)
  \/ \E k \in Divisors : Divide(k)
  \/ \E other \in Operands : Sum(other)
  \/ \E k \in Starts : Radd(k)
  \/ \E start \in Starts : SumFrom(start)
  \/ Return

Spec == Init /\ [][Next]_vars

(***************************************************************************)
(* Worker threads: two threads call operations on Dinero objects they      *)
(* share.  A call is a sequence of steps between which the other thread    *)
(* may run: _normalize writes the precision of the context (line 270),     *)
(* then normalizes and quantizes under the context (lines 271-275); the    *)
(* caller then computes its result under the context.  getcontext()        *)
(* returns the context of the calling thread; a new thread starts with the *)
(* default context.                                                        *)
(***************************************************************************)
\* the objects the threads share: amounts of 5 and of 11 digits
Shared == { from_major(i, USD, DefaultPrec).val : i \in {Str10505, IntLong} }

UnaryOps == {"format", "to_minor_units"}

BinaryOps == {"less_than", "add"}

\* does the operation call _normalize(quantize=True)?
Quantizes(op) == op # "add"

\* a process-wide context: every thread is handed the same one
SharedContext(t) == 1

\* decimal.getcontext(): the context of the calling thread
ContextOf(t) == t

\* the precision thread t computes under, and the thread that wrote it
PrecOf(t) == ctx[ContextOf(t)].prec

WriterOf(t) == ctx[ContextOf(t)].writer

\* thread t calls op on self, with arg; the type and currency checks pass
Begin(t, op, self, arg) ==
  /\ threads[t].pc = "idle"
  /\ threads[t].count < MaxThreadOps
  /\ threads' = [threads EXCEPT ![t] =
        [@ EXCEPT !.pc = "write1", !.op = op, !.self = self, !.arg = arg]]
  /\ UNCHANGED <<ctx, client>>

\* the object _normalize is called on first (self) or second (the operand)
Normalized(th) == IF th.pc \in {"write1", "norm1"} THEN th.self ELSE th.arg

\* _normalize, line 270: getcontext().prec = max(...)
WritePrecision(t) ==
  /\ threads[t].pc \in {"write1", "write2"}
  /\ ctx' = [ctx EXCEPT ![ContextOf(t)] =
        [prec |-> WorkingPrecision(Normalized(threads[t])), writer |-> t]]
  /\ threads' = [threads EXCEPT ![t].pc = IF @ = "write1" THEN "norm1" ELSE "norm2"]
  /\ UNCHANGED client

\* the thread after _normalize returned or raised n
AfterNormalize(th, n, w) ==
  IF n.kind # "ok"
    THEN [th EXCEPT !.pc = "done", !.res = n, !.under = @ \cup {w}]
  ELSE IF th.pc = "norm1"
    THEN [th EXCEPT !.pc = IF th.op \in BinaryOps THEN "write2" ELSE "finish",
                    !.n1 = n, !.under = @ \cup {w}]
  ELSE [th EXCEPT !.pc = "finish", !.n2 = n, !.under = @ \cup {w}]

\* _normalize, lines 271-277, under the precision of the thread's context
NormalizeStep(t) ==
  /\ threads[t].pc \in {"norm1", "norm2"}
  /\ threads' = [threads EXCEPT ![t] =
        AfterNormalize(threads[t],
                       NormalizeUnder(Normalized(threads[t]), Quantizes(threads[t].op),
                                      PrecOf(t)),
                       WriterOf(t))]
  /\ UNCHANGED <<ctx, client>>

\* an outcome of _normalize, used under the precision p of the context
Under(n, p) == [n EXCEPT !.prec = p]

\* what the caller of _normalize computes from its results
Finished(th, p) ==
  CASE th.op = "format" -> FormatOf(th.self, FALSE, FALSE, FormattedOf(th.self, th.n1))
    [] th.op = "to_minor_units" -> MinorUnitsOf(th.self, Under(th.n1, p))
    [] th.op = "less_than" -> CompareBoth(th.op, th.n1, th.n2, 1)
    [] th.op = "add" -> ArithTotal(th.op, th.self, th.n1, Under(th.n2, p))

Finish(t) ==
  /\ threads[t].pc = "finish"
  /\ threads' = [threads EXCEPT ![t] =
        [@ EXCEPT !.pc = "done", !.res = Finished(threads[t], PrecOf(t)),
                  !.under = @ \cup {WriterOf(t)}]]
  /\ UNCHANGED <<ctx, client>>

\* the call returns to the code of the thread
ThreadReturn(t) ==
  /\ threads[t].pc = "done"
  /\ threads' = [threads EXCEPT ![t] = Idle(@.count + 1)]
  /\ UNCHANGED <<ctx, client>>

ThreadsNext ==
  \/ \E t \in Threads, op \in UnaryOps, self \in Shared : Begin(t, op, self, None)
  \/ \E t \in Threads, op \in BinaryOps, self \in Shared, arg \in Shared :
        Begin(t, op, self, arg)
  \/ \E t \in Threads : WritePrecision(t)
  \/ \E t \in Threads : NormalizeStep(t)
  \/ \E t \in Threads : Finish(t)
  \/ \E t \in Threads : ThreadReturn(t)

ThreadsSpec == Init /\ [][ThreadsNext]_vars

(***************************************************************************)
(* Reference values for the properties: exact decimal arithmetic and       *)
(* rounding to the nearest value with e fractional digits, stated without  *)
(* the decimal module's rounding code.                                     *)
(***************************************************************************)
\* a precision under which no operation of the model rounds
BigPrec == 60

ExactAdd(a, b) == DecAdd(a, b, BigPrec)

ExactSub(a, b) == DecSub(a, b, BigPrec)

ExactMul(a, b) == DecMul(a, b, BigPrec)

SameValue(a, b) == DecCmp(a, b) = 0

Abs(x) == Dec(0, x.int, x.exp)

\* coefficient of the value with e fractional digits nearest to |x|; of two
\* equally near values the one whose last digit is even
NearestCoeff(x, e) ==
  IF x.exp >= -e THEN StripLeadingZeros(x.int \o Zeros(x.exp + e))
  ELSE LET k      == Len(x.int) + x.exp + e       \* digits kept
           lo     == IF k <= 0 THEN <<0>> ELSE SubSeq(x.int, 1, k)
           hi     == AddMag(lo, <<1>>)
           below  == ExactSub(Abs(x), Dec(0, lo, -e))
           above  == ExactSub(Dec(0, hi, -e), Abs(x))
           c      == DecCmp(below, above)
       IN IF c < 0 THEN lo
          ELSE IF c > 0 THEN hi
          ELSE IF lo[Len(lo)] % 2 = 0 THEN lo ELSE hi

Nearest(x, e) == Dec(x.sign, NearestCoeff(x, e), -e)

\* the rounded amount of a Dinero
Rounded(m) == Nearest(m.amount, m.currency.exponent)

\* the Decimal a right-hand operand stands for
OperandAmount(x) == IF x.type = "Dinero" THEN x.amount ELSE AsDecimal(x)

SameCurrency(self, x) == x.type # "Dinero" \/ x.currency.code = self.currency.code

\* the integer an int argument denotes
IntValue(x) == DecToInt(DecFromText(x.text))

\* str(m / 10**e) for an int m: the shortest repr of the float quotient
FloatRepr(m, e) ==
  LET q == StripDec(DecDivPow10(DecFromText(m.text), e, BigPrec))
  IN IF q.exp >= 0
       THEN (IF q.sign = 1 THEN <<"-">> ELSE <<>>)
            \o DigitText(q.int \o Zeros(q.exp)) \o <<".", "0">>
     ELSE DecStr(q)

IsFactory(op) == op \in {"from_major", "from_minor", "from_fractional_minor"}

IsQuantizing(op) ==
  op \in {"to_minor_units", "raw_amount", "format", "to_dict"} \cup CompareOps

(***************************************************************************)
(* The financial toolkit (dinero.tools): five stateless functions that     *)
(* validate their arguments and compose the arithmetic of Dinero.  A       *)
(* second client, ToolsSpec, builds a Dinero with from_major and calls     *)
(* them on it.                                                             *)
(***************************************************************************)
Int100 == PyNum("int", <<"1","0","0">>)

Int50 == PyNum("int", <<"5","0">>)

Int500 == PyNum("int", <<"5","0","0">>)

Float725 == PyNum("float", <<"7",".","2","5">>)

Int21 == PyNum("int", <<"2","1">>)

Int19 == PyNum("int", <<"1","9">>)

Int1 == PyNum("int", <<"1">>)

\* the amounts the toolkit's client builds its Dinero from
ToolAmounts == {Int100, Int50, Int500, Str10505}

\* the monetary argument is the client's Dinero or the plain number 1050
Monetary(obj) == {obj, Int1050}

\* rates and percentages: 7.25, 21, 19, the string "10.505" and -25
Rates == {Float725, Int21, Int19, Str10505, IntNeg}

\* durations: 3, the fractional 1050.5, the string "10.505" and -25
Durations == {Int3, Float10505, Str10505, IntNeg}

\* compound frequencies: 1 and -25
Frequencies == {Int1, IntNeg}

\* the float with the value q; its text is repr(float): the shortest
\* decimal that denotes it, which for the quotients and sums of the rates
\* above is the decimal quotient or sum itself
FloatOf(q) ==
  PyNum("float",
        IF StripDec(q).exp >= 0
          THEN (IF q.sign = 1 THEN <<"-">> ELSE <<>>)
               \o DigitText(StripDec(q).int \o Zeros(StripDec(q).exp)) \o <<".", "0">>
        ELSE DecStr(StripDec(q)))

\* rate / 100
RatePercent(rate) == FloatOf(DecDivPow10(AsDecimal(rate), 2, BigPrec))

\* 1 + rate / 100
OnePlus(x) == FloatOf(DecAdd(Dec(0, <<1>>, 0), AsDecimal(x), BigPrec))

IsNegative(x) == AsDecimal(x).sign = 1 /\ ~DecIsZero(AsDecimal(x))

\* a validation that lets negative rates and counts through
ToolCheckUnsigned(amount, rates, counts, p) ==
  IF amount.type # "Dinero" THEN Raise("InvalidOperationError", p)
  ELSE IF (\E r \in rates : r.type \notin {"int", "float"})
          \/ (\E n \in counts : n.type # "int")
    THEN Raise("TypeError", p)
  ELSE Ok(amount, p)

\* the validation every toolkit function starts with: the monetary argument
\* is a Dinero, the rates are ints or floats, the period counts are ints,
\* and none of them is negative
ToolCheck(amount, rates, counts, p) ==
  IF amount.type # "Dinero" THEN Raise("InvalidOperationError", p)
  ELSE IF (\E r \in rates : r.type \notin {"int", "float"})
          \/ (\E n \in counts : n.type # "int")
    THEN Raise("TypeError", p)
  ELSE IF \E x \in rates \cup counts : IsNegative(x) THEN Raise("ValueError", p)
  ELSE Ok(amount, p)

\* the VAT contained in a VAT-inclusive amount: amount - amount / (1 + rate/100)
VatOf(amount, q) == IF q.kind # "ok" THEN q ELSE subtract(amount, q.val, q.prec)

calculate_vat(amount, vat_rate, p) ==
  IF ToolCheck(amount, {vat_rate}, {}, p).kind # "ok" THEN ToolCheck(amount, {vat_rate}, {}, p)
  ELSE VatOf(amount, divide(amount, OnePlus(RatePercent(vat_rate)), p))

\* amount * (percentage / 100)
calculate_percentage(amount, percentage, p) ==
  IF ToolCheck(amount, {percentage}, {}, p).kind # "ok"
    THEN ToolCheck(amount, {percentage}, {}, p)
  ELSE multiply(amount, RatePercent(percentage), p)

TimesCount(r, n) == IF r.kind # "ok" THEN r ELSE multiply(r.val, n, r.prec)

\* principal * (interest_rate / 100) * duration
calculate_simple_interest(principal, interest_rate, duration, p) ==
  IF ToolCheck(principal, {interest_rate}, {duration}, p).kind # "ok"
    THEN ToolCheck(principal, {interest_rate}, {duration}, p)
  ELSE TimesCount(multiply(principal, RatePercent(interest_rate), p), duration)

PlusCost(cost, r) == IF r.kind # "ok" THEN r ELSE add(cost, r.val, r.prec)

\* cost + cost * (markup / 100)
calculate_markup(cost, markup, p) ==
  IF ToolCheck(cost, {markup}, {}, p).kind # "ok" THEN ToolCheck(cost, {markup}, {}, p)
  ELSE PlusCost(cost, multiply(cost, RatePercent(markup), p))

\* x ** n for a period count n >= 1, in decimal arithmetic under precision p
RECURSIVE DecPow(_, _, _)
DecPow(x, n, p) ==
  IF n = 0 THEN Dec(0, <<1>>, 0)
  ELSE IF n = 1 THEN DecFix(x, p)
  ELSE DecMul(DecPow(x, n - 1, p), x, p)

\* (1 + rate / 100 / frequency) ** (frequency * duration)
CompoundFactor(rate, duration, frequency, p) ==
  DecPow(DecAdd(Dec(0, <<1>>, 0),
                DecDiv(AsDecimal(RatePercent(rate)), AsDecimal(frequency), p), p),
         SmallNat(frequency.text) * SmallNat(duration.text), p)

LessPrincipal(principal, total) ==
  IF total.kind # "ok" THEN total ELSE subtract(total.val, principal, total.prec)

\* principal * factor - principal: the interest alone
calculate_compound_interest(principal, interest_rate, duration, compound_frequency, p) ==
  IF ToolCheck(principal, {interest_rate}, {duration, compound_frequency}, p).kind # "ok"
    THEN ToolCheck(principal, {interest_rate}, {duration, compound_frequency}, p)
  ELSE IF DecIsZero(AsDecimal(compound_frequency)) THEN Raise("ZeroDivisionError", p)
  ELSE LessPrincipal(principal,
         multiply(principal,
                  PyDecimal(CompoundFactor(interest_rate, duration, compound_frequency, p)), p))

\* a toolkit call; the client keeps its own Dinero
ToolCall(op, amount, args, res) ==
  /\ last.op = "none"
  /\ d # None
  /\ prec' = res.prec
  /\ last' = Call(op, amount, args, res)
  /\ UNCHANGED <<d, chain>>
  /\ UNCHANGED workers

CalculateVat(amount, rate) ==
  ToolCall("calculate_vat", amount, <<rate>>, calculate_vat(amount, rate, prec))

CalculatePercentage(amount, rate) ==
  ToolCall("calculate_percentage", amount, <<rate>>, calculate_percentage(amount, rate, prec))

CalculateSimpleInterest(amount, rate, n) ==
  ToolCall("calculate_simple_interest", amount, <<rate, n>>,
           calculate_simple_interest(amount, rate, n, prec))

CalculateCompoundInterest(amount, rate, n, f) ==
  ToolCall("calculate_compound_interest", amount, <<rate, n, f>>,
           calculate_compound_interest(amount, rate, n, f, prec))

CalculateMarkup(amount, rate) ==
  ToolCall("calculate_markup", amount, <<rate>>, calculate_markup(amount, rate, prec))

ToolsNext ==
  \/ \E i \in ToolAmounts, c \in Currencies : FromMajor(i, c)
  \/ \E m \in Monetary(d), r \in Rates : CalculateVat(m, r)
  \/ \E m \in Monetary(d), r \in Rates : CalculatePercentage(m, r)
  \/ \E m \in Monetary(d), r \in Rates, n \in Durations : CalculateSimpleInterest(m, r, n)
  \/ \E m \in Monetary(d), r \in Rates, n \in Durations, f \in Frequencies :
       CalculateCompoundInterest(m, r, n, f)
  \/ \E m \in Monetary(d), r \in Rates : CalculateMarkup(m, r)
  \/ Return

ToolsSpec == Init /\ [][ToolsNext]_vars

(***************************************************************************)
(* Currencies are records supplied by the caller.  A third client,         *)
(* RadixSpec, converts between minor and major units in USD and in a       *)
(* currency whose base is 5 (the ariary: 5 iraimbilanja to the ariary).    *)
(***************************************************************************)
MGA == [code |-> "MGA", base |-> 5, exponent |-> 1, symbol |-> "Ar"]

RadixCurrencies == {USD, MGA}

Int5 == PyNum("int", <<"5">>)

\* the amounts converted: 5, 1050, "10.505", 1050.5, -25 and 0
RadixInputs == {Int5, Int1050, Str10505, Float10505, IntNeg, Int0}

RadixNext ==
  \/ \E i \in RadixInputs, c \in RadixCurrencies : FromMajor(i, c)
  \/ \E i \in RadixInputs, c \in RadixCurrencies : FromMinor(i, c)
  \/ \E i \in RadixInputs, c \in RadixCurrencies : FromFractionalMinor(i, c)
  \/ ToMinorUnits
  \/ Return

RadixSpec == Init /\ [][RadixNext]_vars

(***************************************************************************)
(* C1  Round trip: for every currency and every whole integer m,           *)
(* from_minor(m, currency).to_minor_units() returns exactly m, whatever    *)
(* Dinero operations ran before the call.                                  *)
(***************************************************************************)
C1_RoundTrip ==
  (last.op = "from_minor" /\ last.arg[1].type = "int") =>
     /\ last.kind = "ok"
     /\ to_minor_units(last.val, prec).kind = "ok"
     /\ to_minor_units(last.val, prec).val = IntValue(last.arg[1])

(***************************************************************************)
(* C2  For same-currency a and b (b a Dinero or a scalar promoted with     *)
(* from_major), a.add(b) stores exactly a.amount + b.amount and            *)
(* a.subtract(b) exactly a.amount - b.amount: no digit is rounded away.    *)
(***************************************************************************)
C2_ExactSumAndDifference ==
  (/\ last.op \in {"add", "subtract"}
   /\ ValidAdditionOperand(last.arg)
   /\ SameCurrency(last.self, last.arg)) =>
     /\ last.kind = "ok"
     /\ SameValue(last.val.amount,
                  IF last.op = "add"
                  THEN ExactAdd(last.self.amount, OperandAmount(last.arg))
                  ELSE ExactSub(last.self.amount, OperandAmount(last.arg)))

(***************************************************************************)
(* C3  a.multiply(k) returns a Dinero in a's currency whose stored amount  *)
(* is the exact product a.amount * k, so that for an integer k its minor   *)
(* units are k times the exact amount in minor units.                      *)
(***************************************************************************)
C3_ExactProduct ==
  (last.op = "multiply" /\ ValidMultiplicationOperand(last.arg)) =>
     /\ last.kind = "ok"
     /\ last.val.currency = last.self.currency
     /\ SameValue(last.val.amount, ExactMul(last.self.amount, OperandAmount(last.arg)))

(***************************************************************************)
(* C4  Currency guard: for two Dinero whose currency codes differ, add,    *)
(* subtract and the five comparisons all fail with DifferentCurrencyError, *)
(* whatever the two amounts are.                                           *)
(***************************************************************************)
C4_CurrencyGuard ==
  (/\ last.op \in {"add", "subtract"} \cup CompareOps
   /\ last.arg.type = "Dinero"
   /\ last.arg.currency.code # last.self.currency.code) =>
     last.kind = "DifferentCurrencyError"

\* what a quantizing call returns when it rounds the stored amounts to the
\* nearest value with `exponent` fractional digits, ties to even
RoundedResult(c) ==
  LET e == c.self.currency.exponent
      r == Rounded(c.self)
  IN CASE c.op = "raw_amount"     -> r
       [] c.op = "to_minor_units" -> PyInt(r.sign, r.int)
       [] c.op = "format"         ->
            (IF c.arg[1] THEN <<c.self.currency.symbol>> ELSE <<>>)
            \o DecFormat(r, e)
            \o (IF c.arg[2] THEN <<" ", c.self.currency.code>> ELSE <<>>)
       [] c.op = "to_dict"        ->
            [amount   |-> IF c.arg THEN DecFormat(r, e) ELSE DecStr(r),
             currency |-> c.self.currency]
       [] c.op \in CompareOps     -> CmpResult(c.op, DecCmp(r, Rounded(c.arg)))

(***************************************************************************)
(* C5  Every quantization (format, to_minor_units, raw_amount, to_dict and *)
(* the five comparisons) rounds the stored amount to exactly               *)
(* currency.exponent fractional digits, to the nearest such value and, of  *)
(* two equally near ones, to the one whose last digit is even: whatever    *)
(* such a call returns is the value computed from the amounts so rounded.  *)
(***************************************************************************)
C5_RoundHalfEvenEverywhere ==
  (IsQuantizing(last.op) /\ last.kind = "ok") =>
     /\ last.val = RoundedResult(last)
     /\ last.op = "raw_amount" => last.val.exp = -last.self.currency.exponent

\* 10.505 USD is halfway between 10.50 and 10.51 and was exported as 1050
C5_Witness ==
  /\ last.op = "to_minor_units"
  /\ last.kind = "ok"
  /\ last.self.currency = USD
  /\ last.self.amount = Dec(0, <<1, 0, 5, 0, 5>>, -3)
  /\ last.val = PyInt(0, <<1, 0, 5, 0>>)

(***************************************************************************)
(* C6  For same-currency a and b each comparison returns the result of     *)
(* comparing the two amounts after each was rounded to the currency        *)
(* exponent: two values that round to the same amount compare equal and    *)
(* neither is less or greater than the other.                              *)
(***************************************************************************)
C6_CompareRounded ==
  (last.op \in CompareOps /\ last.kind = "ok") =>
     LET c == DecCmp(Rounded(last.self), Rounded(last.arg))
     IN /\ last.val = CmpResult(last.op, c)
        /\ c = 0 => last.val = (last.op \in {"equals_to", "less_than_or_equal",
                                             "greater_than_or_equal"})

\* 10.5 and 10.505 USD differ as stored and compare equal
C6_Witness ==
  /\ last.op = "equals_to"
  /\ last.kind = "ok"
  /\ last.val = TRUE
  /\ ~SameValue(last.self.amount, last.arg.amount)

(***************************************************************************)
(* C7  Commutativity: for all same-currency a and b, of any magnitude and  *)
(* any number of fractional digits, a.add(b).equals_to(b.add(a)) is true.  *)
(***************************************************************************)
C7_AddCommutes ==
  (/\ last.op = "add"
   /\ last.arg.type = "Dinero"
   /\ last.arg.currency.code = last.self.currency.code) =>
     /\ last.kind = "ok"
     /\ add(last.arg, last.self, prec).kind = "ok"
     /\ LET ba == add(last.arg, last.self, prec)
            eq == Compare("equals_to", last.val, ba.val, ba.prec)
        IN eq.kind = "ok" /\ eq.val = TRUE

(***************************************************************************)
(* C8  Unit equivalence: for every currency with exponent e and every      *)
(* whole number m, from_minor(m, c), from_fractional_minor(m, c) and       *)
(* from_major(m / 10^e, c) are pairwise equal under equals_to and have the *)
(* same raw_amount.                                                        *)
(***************************************************************************)
C8_UnitEquivalence ==
  (last.op = "from_minor" /\ last.arg[1].type = "int") =>
     /\ last.kind = "ok"
     /\ LET m   == last.arg[1]
            c   == last.arg[2]
            fm  == from_fractional_minor(m, c, prec)
            mj  == from_major(PyNum("float", FloatRepr(m, c.exponent)), c, fm.prec)
            e1  == Compare("equals_to", last.val, fm.val, mj.prec)
            e2  == Compare("equals_to", last.val, mj.val, e1.prec)
            e3  == Compare("equals_to", fm.val, mj.val, e2.prec)
            r1  == raw_amount(last.val, e3.prec)
            r2  == raw_amount(fm.val, r1.prec)
            r3  == raw_amount(mj.val, r2.prec)
        IN /\ fm.kind = "ok" /\ mj.kind = "ok"
           /\ e1.kind = "ok" /\ e1.val
           /\ e2.kind = "ok" /\ e2.val
           /\ e3.kind = "ok" /\ e3.val
           /\ r1.kind = "ok" /\ r2.kind = "ok" /\ r3.kind = "ok"
           /\ SameValue(r1.val, r2.val) /\ SameValue(r2.val, r3.val)

(***************************************************************************)
(* C9  For every reachable Dinero, to_minor_units() returns the integer    *)
(* that equals the quantized amount times 10^exponent; the product has no  *)
(* fractional part and the call never fails.                               *)
(***************************************************************************)
C9_MinorUnitsTotal ==
  last.op = "to_minor_units" =>
     /\ last.kind = "ok"
     /\ last.val = PyInt(Rounded(last.self).sign, Rounded(last.self).int)

(***************************************************************************)
(* C10  Construction never rounds: from_major stores the parsed decimal as *)
(* given, from_minor and from_fractional_minor store exactly               *)
(* amount / 10^exponent, for inputs of any digit length and in any state   *)
(* of the ambient decimal precision.                                       *)
(***************************************************************************)
C10_ConstructionExact ==
  (/\ IsFactory(last.op)
   /\ ValidAmount(last.arg[1])
   /\ last.op = "from_minor" => ~HasFraction(AsDecimal(last.arg[1]))) =>
     /\ last.kind = "ok"
     /\ SameValue(last.val.amount,
                  IF last.op = "from_major" THEN AsDecimal(last.arg[1])
                  ELSE DecDivPow10(AsDecimal(last.arg[1]), last.arg[2].exponent, BigPrec))

(***************************************************************************)
(* C11  from_minor fails with ValueError exactly when the validated,       *)
(* parsed amount has a non-zero fractional part, and then returns no       *)
(* Dinero; every whole-number amount is accepted.                          *)
(***************************************************************************)
C11_FromMinorWholeOnly ==
  (last.op = "from_minor" /\ ValidAmount(last.arg[1])) =>
     IF HasFraction(AsDecimal(last.arg[1]))
       THEN last.kind = "ValueError" /\ last.val = None
       ELSE last.kind = "ok" /\ last.val.type = "Dinero"

(***************************************************************************)
(* C12  The factories, add, subtract and multiply fail with                *)
(* InvalidOperationError when the amount or right-hand operand is a list,  *)
(* tuple, dict or set or, for the factories, a non-numeric string; the     *)
(* check comes first, so no Dinero is created and no other error is raised.*)
(***************************************************************************)
IsContainer(x) == x.type \in {"list", "tuple", "dict", "set"}

IsNonNumericString(x) == x.type = "str" /\ ~IsNumberText(x.text)

C12_InvalidOperandRejected ==
  (\/ IsFactory(last.op) /\ (IsContainer(last.arg[1]) \/ IsNonNumericString(last.arg[1]))
   \/ last.op \in {"add", "subtract", "multiply"} /\ IsContainer(last.arg)) =>
     /\ last.kind = "InvalidOperationError"
     /\ last.val = None

C12_Witness ==
  /\ last.op = "from_fractional_minor"
  /\ last.arg[1] = StrAbc
  /\ last.kind = "InvalidOperationError"
  /\ d # None

(***************************************************************************)
(* C13  Each of the five comparisons fails with InvalidOperationError      *)
(* whenever the other operand is not a Dinero, also when it is a number or *)
(* numeric string equal to the amount: a scalar is never promoted.         *)
(***************************************************************************)
C13_CompareNeedsDinero ==
  (last.op \in CompareOps /\ last.arg.type # "Dinero") =>
     /\ last.kind = "InvalidOperationError"
     /\ last.val = None

C13_Witness ==
  /\ last.op = "less_than_or_equal"
  /\ last.arg = Str10505
  /\ SameValue(last.self.amount, AsDecimal(Str10505))
  /\ last.kind = "InvalidOperationError"

(***************************************************************************)
(* C14  divide(x) with a zero-valued x fails with one and the same error,  *)
(* the one Decimal raises for a division by zero, for every dividend,      *)
(* a dividend of amount zero included, and returns no Dinero.              *)
(***************************************************************************)
IsZeroValued(x) == ValidAmount(x) /\ DecIsZero(AsDecimal(x))

C14_DivideByZero ==
  (last.op = "divide" /\ IsZeroValued(last.arg)) =>
     /\ last.kind = "decimal.DivisionByZero"
     /\ last.val = None

(***************************************************************************)
(* C15  All checks are eager: the operand-type check, the Dinero-type      *)
(* check of comparisons and the currency check come before any arithmetic, *)
(* quantization or change of the context precision; a call that fails with *)
(* InvalidOperationError or with a currency mismatch leaves the context    *)
(* precision as it found it.                                               *)
(***************************************************************************)
IsCheckFailure(k) == k \in {"InvalidOperationError", "DifferentCurrencyError"}

C15_ChecksAreEager ==
  [][(last'.op # "none" /\ IsCheckFailure(last'.kind)) => prec' = prec]_vars

(***************************************************************************)
(* C16  Summing same-currency Dinero values from the neutral element 0     *)
(* gives the chained add: 0 + a is a itself, and sum([a, b, 0]) equals     *)
(* a.add(b).                                                               *)
(***************************************************************************)
IsTrue(res) == res.kind = "ok" /\ res.val

SumEqualsAdd(total, ab, p) ==
  /\ total.kind = "ok"
  /\ ab.kind = "ok"
  /\ IsTrue(Equals(total.val, ab.val, p))

C16_SumIsChainedAdd ==
  (last.op = "sum" /\ SameCurrency(last.self, last.arg)) =>
     /\ radd(last.self, Int0, prec).val = last.self
     /\ SumEqualsAdd(last, add(last.self, last.arg, prec), prec)

C18_FactoriesOnly ==
  [][/\ last'.op = "Dinero" =>
          (last'.kind = "ValueError" /\ last'.val = None /\ d' = d)
     /\ d' # d =>
          /\ IsFactory(last'.op) \/ last'.op \in ArithOps
          /\ last'.kind = "ok"
          /\ d' = last'.val]_vars

C18_Witness ==
  /\ last.op = "Dinero"
  /\ ValidAmount(last.arg[1])
  /\ last.kind = "ValueError"
  /\ d = None

(***************************************************************************)
(* C20  The two structured exports agree: to_dict()['amount'] is the text  *)
(* of the amount rounded to exactly `exponent` fractional digits,          *)
(* to_db_dict()['amount'] is the integer to_minor_units() and equals the   *)
(* to_dict amount times 10^exponent, and both carry the same currency      *)
(* record with exactly the fields code, base, exponent and symbol.         *)
(***************************************************************************)
\* a number written with digits, a sign and a decimal point alone
IsPlainText(t) == \A i \in 1..Len(t) : IsDigitChar(t[i]) \/ t[i] \in {"-", "."}

ExportsAgree(self, dict, db, units) ==
  /\ dict.kind = db.kind
  /\ db.kind = "ok" =>
       /\ IsPlainText(dict.val.amount)
       /\ DecFromText(dict.val.amount).exp = -self.currency.exponent
       /\ SameValue(DecFromText(dict.val.amount), Rounded(self))
       /\ units.kind = "ok" /\ db.val.amount = units.val
       /\ db.val.amount =
            DecToInt(ExactMul(DecFromText(dict.val.amount),
                              Dec(0, Pow10(self.currency.exponent), 0)))
       /\ dict.val.currency = db.val.currency
       /\ DOMAIN db.val.currency = {"code", "base", "exponent", "symbol"}
       /\ db.val.currency.code = self.currency.code

C20_ExportsAgree ==
  last.op = "to_db_dict" =>
     ExportsAgree(last.self, to_dict(last.self, FALSE, prec), last,
                  to_minor_units(last.self, prec))

C20_Witness ==
  /\ last.op = "to_db_dict"
  /\ last.kind = "ok"
  /\ ~SameValue(last.self.amount, Rounded(last.self))
  /\ last.self.currency.exponent > 0
  /\ last.val.amount.int # <<0>>

(***************************************************************************)
(* C19  Dinero objects can be shared by concurrent readers without locks:  *)
(* when two threads run operations that normalize amounts of different     *)
(* digit lengths, every operation returns what it returns when run alone,  *)
(* and no thread computes under a precision the other thread wrote.        *)
(***************************************************************************)
\* the outcome of the call when no other thread runs
Alone(th) ==
  CASE th.op = "format" -> format(th.self, FALSE, FALSE, DefaultPrec)
    [] th.op = "to_minor_units" -> to_minor_units(th.self, DefaultPrec)
    [] th.op = "less_than" -> Compare(th.op, th.self, th.arg, DefaultPrec)
    [] th.op = "add" -> add(th.self, th.arg, DefaultPrec)

SameOutcome(a, b) == a.kind = b.kind /\ (a.kind = "ok" => a.val = b.val)

NumericPart(t, symbol, currency) ==
  SubSeq(t, IF symbol THEN 2 ELSE 1, Len(t) - (IF currency THEN 2 ELSE 0))

WithoutCommas(t) == SelectSeq(t, LAMBDA c : c # ",")

\* index of the last character of the integer part of the number text t
IntegerEnd(t) == IF FirstOf(t, {"."}) = 0 THEN Len(t) ELSE FirstOf(t, {"."}) - 1

\* the integer part is written in groups of three digits from the right
\* and nothing else carries a comma
GroupedByThree(t) ==
  \A i \in 1..Len(t) :
     (t[i] = ",") <=> (i <= IntegerEnd(t) /\ (IntegerEnd(t) - i + 1) % 4 = 0)

\* number of characters after the decimal point; 0 when there is no point
FractionDigits(t) == IF FirstOf(t, {"."}) = 0 THEN 0 ELSE Len(t) - FirstOf(t, {"."})

Unsigned(t) == IF t # <<>> /\ t[1] = "-" THEN Tail(t) ELSE t

RendersRounded(num, self) ==
  /\ GroupedByThree(Unsigned(num))
  /\ IsPlainText(WithoutCommas(num))
  /\ IsNumberText(WithoutCommas(num))
  /\ (FirstOf(num, {"."}) = 0) <=> (self.currency.exponent = 0)
  /\ FractionDigits(num) = self.currency.exponent
  /\ SameValue(DecFromText(WithoutCommas(num)), Rounded(self))

Adorned(t, self, symbol, currency) ==
  /\ Len(t) >= 1 + (IF symbol THEN 1 ELSE 0) + (IF currency THEN 2 ELSE 0)
  /\ symbol => t[1] = self.currency.symbol
  /\ currency => (t[Len(t) - 1] = " " /\ t[Len(t)] = self.currency.code)
  /\ \A i \in 1..Len(t) :
        t[i] \in {self.currency.symbol, self.currency.code, " "} =>
           \/ symbol /\ i = 1
           \/ currency /\ i >= Len(t) - 1

C21_FormatRendering ==
  (last.op = "format" /\ last.kind = "ok") =>
     /\ Adorned(last.val, last.self, last.arg[1], last.arg[2])
     /\ RendersRounded(NumericPart(last.val, last.arg[1], last.arg[2]), last.self)
     /\ \A sy \in BOOLEAN, cu \in BOOLEAN :
           /\ format(last.self, sy, cu, prec).kind = "ok"
           /\ NumericPart(format(last.self, sy, cu, prec).val, sy, cu)
                = NumericPart(last.val, last.arg[1], last.arg[2])

C21_Witness ==
  /\ last.op = "format"
  /\ last.kind = "ok"
  /\ last.arg = <<TRUE, TRUE>>
  /\ last.self.currency.exponent > 0
  /\ \E i \in 1..Len(last.val) : last.val[i] = ","
  /\ ~SameValue(last.self.amount, Rounded(last.self))

(***************************************************************************)
(* C22  calculate_vat.  As stated: for every Dinero amount and every       *)
(* non-negative numeric rate, calculate_vat(amount, rate) equals           *)
(* amount.multiply(rate / 100) under equals_to, and in particular          *)
(* calculate_vat(from_major(100, USD), 7.25) equals from_major("6.76",     *)
(* USD).  The two halves cannot both hold: 100 * 0.0725 is 7.25.           *)
(***************************************************************************)
Str676 == PyNum("str", <<"6",".","7","6">>)

IsRate(x) == x.type \in {"int", "float"} /\ ~IsNegative(x)

IsVatCall == last.op = "calculate_vat" /\ last.self.type = "Dinero" /\ IsRate(last.arg[1])

RateShare(amount, rate) == multiply(amount, RatePercent(rate), DefaultPrec)

EqualsTo(a, b) == IsTrue(Equals(a, b, DefaultPrec))

ContainedTax(amount, rate) ==
  ExactSub(amount,
           DecDiv(amount, ExactAdd(Dec(0, <<1>>, 0), AsDecimal(RatePercent(rate))), BigPrec))

RateOf(call) == call.arg[1]

CountsOf(call) == {call.arg[i] : i \in 2..Len(call.arg)}

IsText(x) == x.type = "str"

IsFractional(x) == x.type = "float"

WrongCategory(call) ==
  IsText(RateOf(call)) \/ \E n \in CountsOf(call) : IsText(n) \/ IsFractional(n)

SomeNegative(call) ==
  \E x \in {RateOf(call)} \cup CountsOf(call) : ~IsText(x) /\ IsNegative(x)

C23_ToolkitValidation ==
  last.op \in ToolOps =>
    /\ last.self.type # "Dinero" => last.kind = "InvalidOperationError"
    /\ (last.self.type = "Dinero" /\ WrongCategory(last)) => last.kind = "TypeError"
    /\ (last.self.type = "Dinero" /\ ~WrongCategory(last) /\ SomeNegative(last))
         => last.kind = "ValueError"
    /\ (last.self.type # "Dinero" \/ WrongCategory(last) \/ SomeNegative(last))
         => (last.kind # "ok" /\ last.val = None /\ last.returned = "nothing")

C23_Witness ==
  /\ last.op = "calculate_compound_interest"
  /\ last.self.type = "Dinero"
  /\ last.arg = <<Int21, Int3, IntNeg>>
  /\ last.kind = "ValueError"
  /\ last.val = None

(***************************************************************************)
(* C24  The working precision that _normalize sets, max(base, length of    *)
(* the amount's text + exponent), is never smaller than the number of      *)
(* significant digits of the amount nor of its quantized result, for every *)
(* Dinero reachable through the factories and the arithmetic: normalize    *)
(* drops no significant digit and quantization to the currency exponent    *)
(* always succeeds.                                                        *)
(***************************************************************************)
SignificantDigits(x) == IF DecIsZero(x) THEN 1 ELSE Len(StripLeadingZeros(StripDec(x).int))

\* the digits of the coefficient of the amount once rounded to the exponent
QuantizedDigits(m) == IF DecIsZero(Rounded(m)) THEN 1 ELSE Len(StripLeadingZeros(Rounded(m).int))

C24_PrecisionCoversDigits ==
  d # None =>
    /\ WorkingPrecision(d) >= SignificantDigits(d.amount)
    /\ WorkingPrecision(d) >= QuantizedDigits(d)
    /\ SameValue(DecNormalize(d.amount, WorkingPrecision(d)), d.amount)
    /\ Normalize(d, TRUE, prec).kind = "ok"
    /\ Normalize(d, FALSE, prec).kind = "ok"

(***************************************************************************)
(* C25  Minor/major conversion uses the currency's radix: from_minor and   *)
(* from_fractional_minor divide the amount by base^exponent and            *)
(* to_minor_units multiplies by base^exponent, so that for a currency      *)
(* whose base is not 10 exactly base^exponent minor units equal one major  *)
(* unit.                                                                   *)
(***************************************************************************)
\* base^exponent: the minor units in one major unit
MinorPerMajor(c) == Dec(0, NatDigits(c.base ^ c.exponent), 0)

IsWhole(x) == ~HasFraction(x)

C25_RadixConversion ==
  /\ (last.op \in {"from_minor", "from_fractional_minor"} /\ last.kind = "ok")
       => SameValue(ExactMul(last.val.amount, MinorPerMajor(last.arg[2])),
                    AsDecimal(last.arg[1]))
  /\ (last.op = "to_minor_units" /\ last.kind = "ok" /\ IsWhole(last.self.amount))
       => SameValue(Dec(last.val.sign, last.val.int, 0),
                    ExactMul(last.self.amount, MinorPerMajor(last.self.currency)))

(***************************************************************************)
(* C26  History independence: the stored amount returned by each factory   *)
(* and by add, subtract, multiply and divide, and the value returned by    *)
(* to_minor_units, format and each comparison, is a function of the call's *)
(* arguments only: the same call issued after different sequences of       *)
(* earlier operations, which leave different ambient precisions behind,    *)
(* obtains the same result.                                                *)
(***************************************************************************)
\* the outcome of the call `c` when issued under the ambient precision p
Reissued(c, p) ==
  CASE c.op = "from_major" -> from_major(c.arg[1], c.arg[2], p)
    [] c.op = "from_minor" -> from_minor(c.arg[1], c.arg[2], p)
    [] c.op = "from_fractional_minor" -> from_fractional_minor(c.arg[1], c.arg[2], p)
    [] c.op \in ArithOps -> Arith(c.op, c.self, c.arg, p)
    [] c.op = "to_minor_units" -> to_minor_units(c.self, p)
    [] c.op = "format" -> format(c.self, c.arg[1], c.arg[2], p)
    [] c.op \in CompareOps -> Compare(c.op, c.self, c.arg, p)

HistoryFree(op) ==
  op \in {"from_major", "from_minor", "from_fractional_minor", "to_minor_units", "format"}
         \cup ArithOps \cup CompareOps

\* the run that issues the call first, in a fresh process
InFreshProcess(c) == Reissued(c, DefaultPrec)

C26_HistoryIndependent ==
  HistoryFree(last.op) =>
    /\ InFreshProcess(last).kind = last.kind
    /\ InFreshProcess(last).val = last.val

(***************************************************************************)
(* C27  Quantize-late bound: for all same-currency Dinero a and b,         *)
(* a.add(b).to_minor_units() is the round-half-to-even of the exact sum of *)
(* the two stored amounts; it differs from a.to_minor_units() +            *)
(* b.to_minor_units() by at most one minor unit, and the two are equal     *)
(* whenever both stored amounts have at most `exponent` fractional digits. *)
(***************************************************************************)
\* the integer a call of to_minor_units returned, as a decimal
AsDec(i) == Dec(i.sign, i.int, 0)

\* the minor units of the amount x rounded half-even to e fractional digits
MinorUnitsOfSum(x, e) == Dec(Nearest(x, e).sign, Nearest(x, e).int, 0)

FitsExponent(m) == -StripDec(m.amount).exp <= m.currency.exponent

One == Dec(0, <<1>>, 0)

\* late: the minor units of the sum; early: the sum of the minor units
QuantizeLateBound(a, b, late, ma, mb) ==
  /\ late.kind = "ok" /\ ma.kind = "ok" /\ mb.kind = "ok"
  /\ SameValue(AsDec(late.val),
               MinorUnitsOfSum(ExactAdd(a.amount, b.amount), a.currency.exponent))
  /\ DecCmp(Abs(ExactSub(AsDec(late.val), ExactAdd(AsDec(ma.val), AsDec(mb.val)))), One) <= 0
  /\ (FitsExponent(a) /\ FitsExponent(b))
       => SameValue(AsDec(late.val), ExactAdd(AsDec(ma.val), AsDec(mb.val)))

C27_QuantizeLate ==
  (last.op = "add" /\ last.arg.type = "Dinero"
     /\ last.arg.currency.code = last.self.currency.code) =>
    /\ last.kind = "ok"
    /\ QuantizeLateBound(last.self, last.arg, to_minor_units(last.val, prec),
                         to_minor_units(last.self, prec), to_minor_units(last.arg, prec))

(***************************************************************************)
(* C28  The five comparisons form a consistent total order on              *)
(* same-currency values: exactly one of a.less_than(b), a.equals_to(b),    *)
(* a.greater_than(b) is true; less_than_or_equal is true iff less_than or  *)
(* equals_to is; greater_than_or_equal is true iff greater_than or         *)
(* equals_to is; a.less_than(b) iff b.greater_than(a); and the order is    *)
(* monotone in the stored amounts (a.amount <= b.amount implies            *)
(* a.less_than_or_equal(b)).                                               *)
(***************************************************************************)
ExactlyOne(x, y, z) == (x /\ ~y /\ ~z) \/ (~x /\ y /\ ~z) \/ (~x /\ ~y /\ z)

Consistent(a, b, lt, eq, gt, le, ge, rev) ==
  /\ \A r \in {lt, eq, gt, le, ge, rev} : r.kind = "ok"
  /\ ExactlyOne(lt.val, eq.val, gt.val)
  /\ le.val <=> (lt.val \/ eq.val)
  /\ ge.val <=> (gt.val \/ eq.val)
  /\ lt.val <=> rev.val
  /\ DecCmp(a.amount, b.amount) <= 0 => le.val

IsSameCurrencyComparison ==
  /\ last.op \in CompareOps
  /\ last.arg.type = "Dinero"
  /\ last.arg.currency.code = last.self.currency.code

C28_TotalOrder ==
  IsSameCurrencyComparison =>
    /\ last.kind = "ok"
    /\ Consistent(last.self, last.arg,
                  Compare("less_than", last.self, last.arg, prec),
                  Compare("equals_to", last.self, last.arg, prec),
                  Compare("greater_than", last.self, last.arg, prec),
                  Compare("less_than_or_equal", last.self, last.arg, prec),
                  Compare("greater_than_or_equal", last.self, last.arg, prec),
                  Compare("greater_than", last.arg, last.self, prec))

(***************************************************************************)
(* C29  Reverse-add returns the right-hand Dinero unchanged for every left *)
(* operand and performs no validation, promotion or currency check: a      *)
(* non-zero number on the left is dropped rather than added (k + d yields  *)
(* d, not d.add(k)), so sum(values, start) with a non-zero scalar start    *)
(* omits start from the total, and an operand that add would reject with   *)
(* InvalidOperationError raises nothing.                                   *)
(***************************************************************************)
\* the total of sum([d, d], start) is that of d.add(d): start is left out
StartOmitted(total, both) == total.kind = both.kind /\ total.val = both.val

C29_ReverseAddReturnsSelf ==
  /\ last.op = "radd" =>
       /\ last.kind = "ok"
       /\ last.val = last.self
  /\ last.op = "sum_from" =>
       StartOmitted(last, add(last.self, last.self, DefaultPrec))

\* [] + d returns d, where d.add([]) raises, and d is not d.add(-25)
C29_Witness ==
  /\ last.op = "radd"
  /\ last.arg = EmptyList
  /\ last.kind = "ok"
  /\ last.val = last.self
  /\ add(last.self, last.arg, prec).kind = "InvalidOperationError"
  /\ add(last.self, IntNeg, prec).val # last.self

====
